---- MODULE Spec2Model ----
(***************************************************************************)
(* Model of app/services/csv_data_service.py (CSVDataService): the loader  *)
(* of the three CSV exports, the cleaning pipelines applied to each, and   *)
(* the summary query; and of app/services/analytics_engine.py              *)
(* (AnalyticsEngine): the business pulse computed from the loaded frames.  *)
(*                                                                         *)
(* A pandas DataFrame is a record [isNone, cols, rows]: cols is the set of *)
(* column labels, rows the sequence of rows, each row [idx, c] with idx    *)
(* the pandas index label (kept through every filter) and c the cells, a   *)
(* function from cols to cells.  The attribute value None is the frame     *)
(* with isNone = TRUE.                                                     *)
(*                                                                         *)
(* A cell is [k, n, s]:                                                    *)
(*   k = "null"   NaN / NaT / empty CSV field                              *)
(*   k = "num"    a number; n is the value in units of 1/Scale             *)
(*   k = "text"   text that spells neither a number nor a timestamp (s)    *)
(*   k = "tstext" text that spells the timestamp n                         *)
(*   k = "ts"     a parsed datetime64 value n                              *)
(*   k = "date"   the ISO calendar-date string of day n                    *)
(***************************************************************************)
EXTENDS Integers, Sequences, FiniteSets, TLC

VARIABLES
    dirExists,   \* os.path.exists(self.data_dir)
    fs,          \* per category: the file on disk (present, what read_csv does per encoding, parsed content)
    now,         \* datetime.now() during the load
    df,          \* self.transactions_df / self.settlements_df / self.support_df
    pc,          \* position of the constructor: "new", "load", "read", "after_read", a cleaning step, "ready"
    cat,         \* index into Categories of the category being loaded
    enc,         \* index into Encodings of the encoding tried next
    attempts,    \* per category: the read_csv calls made so far, <<encoding, outcome>>
    summary,     \* result of the last get_data_summary call
    result       \* what the last query of the AnalyticsEngine returned, and at what clock

vars == <<dirExists, fs, now, df, pc, cat, enc, attempts, summary, result>>

-----------------------------------------------------------------------------
(* Bounds of the model *)

MaxRows == 2      \* rows of a generated raw file
LoadTime == 3     \* the clock when the files are loaded; file timestamps range over 0..LoadTime + 1
TicksPerDay == 2  \* clock resolution: timestamps are integers, TicksPerDay of them in a calendar day

-----------------------------------------------------------------------------
(* Program constants *)

null_threshold_num == 4      \* null_threshold = 0.8 = 4/5
null_threshold_den == 5
paise_median_threshold == 10000        \* transactions: median_amount > 10000
paise_per_rupee == 100
max_amount == 10000000
settlement_median_threshold == 10000   \* settlements: median_val > 10000

\* Amounts are fixed-point: a num cell holds value * Scale.  The amounts of the
\* model's files are whole multiples of 10, so that dividing them by 100 is
\* exact, and the sum of a file's amounts fits TLC's 32-bit integers.
Scale == 10

Categories == <<"transactions", "settlements", "support">>
Category == {Categories[i] : i \in 1..3}

encodings == <<"utf-8", "latin-1", "cp1252">>
Encoding == {encodings[i] : i \in 1..3}

\* What one pd.read_csv(file, encoding=e) call does: returns a frame, raises
\* UnicodeDecodeError, or raises any other exception (ParserError, OSError, ...).
Outcome == {"ok", "decode_error", "error"}

-----------------------------------------------------------------------------
(* Cells *)

NULL == [k |-> "null", n |-> 0, s |-> ""]
Num(x) == [k |-> "num", n |-> x * Scale, s |-> ""]
Text(t) == [k |-> "text", n |-> 0, s |-> t]
TsText(t) == [k |-> "tstext", n |-> t, s |-> ""]
Ts(t) == [k |-> "ts", n |-> t, s |-> ""]
DateStr(day) == [k |-> "date", n |-> day, s |-> ""]

isnull(cell) == cell.k = "null"

-----------------------------------------------------------------------------
(* Frames *)

None == [isNone |-> TRUE, cols |-> {}, rows |-> <<>>]
DataFrame(cols, rows) == [isNone |-> FALSE, cols |-> cols, rows |-> rows]
EmptyDataFrame == DataFrame({}, <<>>)

len(d) == Len(d.rows)

\* DataFrame.empty: any axis of length 0
empty(d) == len(d) = 0 \/ d.cols = {}

Idx(d) == {d.rows[i].idx : i \in 1..len(d)}

\* df[col]: the series of the cells of one column, in row order
Column(d, col) == [i \in 1..len(d) |-> d.rows[i].c[col]]

\* df[mask]: the rows where the boolean series mask is true, same columns, same order
Filter(d, mask) ==
    LET keep == {d.rows[i].idx : i \in {j \in 1..len(d) : mask[j]}}
    IN [d EXCEPT !.rows = SelectSeq(d.rows, LAMBDA r : r.idx \in keep)]

\* series.notna()
notna(series) == [i \in DOMAIN series |-> ~isnull(series[i])]

\* df.dropna(subset=[col])
dropna(d, col) == Filter(d, notna(Column(d, col)))

\* df[col] = series: adds the column or overwrites it
Assign(d, col, series) ==
    [d EXCEPT !.cols = d.cols \cup {col},
              !.rows = [i \in 1..len(d) |->
                          [idx |-> d.rows[i].idx,
                           c |-> [x \in d.cols \cup {col} |->
                                    IF x = col THEN series[i] ELSE d.rows[i].c[x]]]]]

\* df.drop(columns=drop)
DropColumns(d, drop) ==
    [d EXCEPT !.cols = d.cols \ drop,
              !.rows = [i \in 1..len(d) |->
                          [idx |-> d.rows[i].idx,
                           c |-> [x \in d.cols \ drop |-> d.rows[i].c[x]]]]]

NullCount(d, col) == Cardinality({i \in 1..len(d) : isnull(d.rows[i].c[col])})

-----------------------------------------------------------------------------
(* Sparse-column pruning, the first step of all three cleaners *)

\* mutant: a column at the threshold is dropped too
NullAtThreshold(d, col) ==
    NullCount(d, col) * null_threshold_den >= null_threshold_num * len(d)

\* null_percentages[col] > null_threshold, with null_percentages = nulls / len
MostlyNull(d, col) ==
    NullCount(d, col) * null_threshold_den > null_threshold_num * len(d)

columns_to_drop(d) == {col \in d.cols : MostlyNull(d, col)}

PruneSparseColumns(d) == DropColumns(d, columns_to_drop(d))

-----------------------------------------------------------------------------
(* Conversions used by the cleaners *)

\* errors='coerce' on one cell: what does not spell a number becomes NaN
coerce_numeric(cell) == IF cell.k = "num" THEN cell ELSE NULL

\* pd.to_numeric(series, errors='coerce')
to_numeric(series) == [i \in DOMAIN series |-> coerce_numeric(series[i])]

\* errors='coerce' on one cell: what does not spell a timestamp becomes NaT; a
\* number is taken as nanoseconds since the epoch, the origin of the model's clock
coerce_datetime(cell) ==
    CASE cell.k = "tstext" -> Ts(cell.n)
      [] cell.k = "ts" -> cell
      [] cell.k = "num" -> Ts(0)
      [] OTHER -> NULL

\* pd.to_datetime(series, errors='coerce')
to_datetime(series) == [i \in DOMAIN series |-> coerce_datetime(series[i])]

\* created_at.dt.date
DateOf(t) == t \div TicksPerDay

\* str.upper() on the texts that occur in the model's files
upper(t) ==
    CASE t = "success" -> "SUCCESS"
      [] t = "Captured" -> "CAPTURED"
      [] t = "failed" -> "FAILED"
      [] t = "pending" -> "PENDING"
      [] t = "refunded" -> "REFUNDED"
      [] t = "upi" -> "UPI"
      [] t = "Credit Card" -> "CREDIT CARD"
      [] t = "paytm" -> "PAYTM"
      [] t = "nan" -> "NAN"
      [] OTHER -> t

\* series.astype(str) on one cell
astype_str(cell) ==
    CASE cell.k = "text" -> cell.s
      [] cell.k = "null" -> "nan"
      [] cell.k = "num" -> "<number>"
      [] OTHER -> "<timestamp>"

status_keys == {"SUCCESS", "SUCCESSFUL", "CAPTURED", "SETTLED", "COMPLETED", "APPROVED",
                "FAILED", "FAILURE", "DECLINED", "TIMEOUT", "ERROR", "REJECTED",
                "PENDING", "INITIATED", "PROCESSING"}

status_mapping(t) ==
    CASE t \in {"SUCCESS", "SUCCESSFUL", "CAPTURED", "SETTLED", "COMPLETED", "APPROVED"} -> "SUCCESS"
      [] t \in {"FAILED", "FAILURE", "DECLINED", "TIMEOUT", "ERROR", "REJECTED"} -> "FAILED"
      [] t \in {"PENDING", "INITIATED", "PROCESSING"} -> "PENDING"

payment_keys == {"CREDIT CARD", "DEBIT CARD", "UPI", "NET BANKING", "WALLET", "EMI",
                 "CREDIT_CARD", "DEBIT_CARD"}

payment_mapping(t) ==
    CASE t \in {"CREDIT CARD", "CREDIT_CARD"} -> "CREDIT_CARD"
      [] t \in {"DEBIT CARD", "DEBIT_CARD"} -> "DEBIT_CARD"
      [] t = "NET BANKING" -> "NET_BANKING"
      [] OTHER -> t

\* series.astype(str).str.upper()
str_upper(series) == [i \in DOMAIN series |-> Text(upper(astype_str(series[i])))]

\* series.astype(str).str.upper().map(status_mapping): NaN outside the table
map_status(series) ==
    [i \in DOMAIN series |->
        LET u == str_upper(series)[i].s
        IN IF u \in status_keys THEN Text(status_mapping(u)) ELSE NULL]

\* series.astype(str).str.upper().map(payment_mapping): NaN outside the table
map_payment(series) ==
    [i \in DOMAIN series |->
        LET u == str_upper(series)[i].s
        IN IF u \in payment_keys THEN Text(payment_mapping(u)) ELSE NULL]

\* series.fillna(other)
fillna(series, other) ==
    [i \in DOMAIN series |-> IF isnull(series[i]) THEN other[i] ELSE series[i]]

RECURSIVE Insert(_, _)
Insert(x, s) ==
    IF s = <<>> THEN <<x>>
    ELSE IF x <= Head(s) THEN <<x>> \o s
    ELSE <<Head(s)>> \o Insert(x, Tail(s))

RECURSIVE Sort(_)
Sort(s) == IF s = <<>> THEN <<>> ELSE Insert(Head(s), Sort(Tail(s)))

\* the values of a numeric column, in row order
Values(d, col) == [i \in 1..len(d) |-> Column(d, col)[i].n]

\* Twice series.median() (the mean of the two middle values when the count is
\* even), so that the model stays in the integers.  Not defined on no values,
\* where pandas gives NaN: see MedianExceeds.
median_x2(vals) ==
    LET s == Sort(vals)
        n == Len(s)
    IN IF n % 2 = 1 THEN 2 * s[(n + 1) \div 2] ELSE s[n \div 2] + s[n \div 2 + 1]

\* series.median() > threshold; NaN > threshold is False
MedianExceeds(vals, threshold) ==
    Len(vals) > 0 /\ median_x2(vals) > 2 * threshold * Scale

-----------------------------------------------------------------------------
(* _clean_transaction_data, step by step *)

column_mapping == <<
    <<"transaction_id", "txn_id">>,
    <<"merchant_display_name", "merchant_name">>,
    <<"txn_status_name", "status">>,
    <<"payment_mode_name", "payment_method">>,
    <<"transaction_start_date_time", "created_at">>,
    <<"acquirer_name", "gateway">>,
    <<"amount", "amount">>,
    <<"txn_completion_date_time", "completed_at">>,
    <<"transaction_type_name", "transaction_type">>,
    <<"category", "category">> >>

RECURSIVE ApplyMappingFrom(_, _)
ApplyMappingFrom(d, i) ==
    IF i > Len(column_mapping) THEN d
    ELSE LET old_col == column_mapping[i][1]
             new_col == column_mapping[i][2]
         IN IF old_col \in d.cols /\ new_col \notin d.cols
            THEN ApplyMappingFrom(Assign(d, new_col, Column(d, old_col)), i + 1)
            ELSE ApplyMappingFrom(d, i + 1)

ApplyColumnMapping(d) == ApplyMappingFrom(d, 1)

critical_columns == <<"transaction_id", "amount", "merchant_display_name",
                      "transaction_start_date_time">>

RECURSIVE DropCriticalFrom(_, _)
DropCriticalFrom(d, i) ==
    IF i > Len(critical_columns) THEN d
    ELSE IF critical_columns[i] \in d.cols
         THEN DropCriticalFrom(dropna(d, critical_columns[i]), i + 1)
         ELSE DropCriticalFrom(d, i + 1)

DropMissingCritical(d) == DropCriticalFrom(d, 1)

\* mutant: the magnitude test alone, as the settlement cleaner does it
NeedsConversionByMedianOnly(d) ==
    MedianExceeds(Values(d, "amount"), paise_median_threshold)

\* has_convenience_paise and median_amount > 10000
NeedsPaiseConversion(d) ==
    /\ "convenience_fees_amt_in_paise" \in d.cols
    /\ MedianExceeds(Values(d, "amount"), paise_median_threshold)

\* amount = amount / 100
DivideBy100(d, col) ==
    Assign(d, col, [i \in 1..len(d) |->
                      [Column(d, col)[i] EXCEPT !.n = @ \div paise_per_rupee]])

\* df['amount'] > 0
IsPositive(d) == [i \in 1..len(d) |-> Column(d, "amount")[i].n > 0]

\* df['amount'] <= 10000000
IsAtMostMax(d) == [i \in 1..len(d) |-> Column(d, "amount")[i].n <= max_amount * Scale]

\* mutant: the unit correction first, the cap on the corrected amounts
CorrectsBeforeCap(d) ==
    IF "amount" \notin d.cols THEN d
    ELSE LET numeric == dropna(Assign(d, "amount", to_numeric(Column(d, "amount"))), "amount")
             positive == Filter(numeric, IsPositive(numeric))
             corrected == IF NeedsPaiseConversion(positive)
                          THEN DivideBy100(positive, "amount") ELSE positive
         IN Filter(corrected, IsAtMostMax(corrected))

CleanAmount(d) ==
    IF "amount" \notin d.cols THEN d
    ELSE LET numeric == dropna(Assign(d, "amount", to_numeric(Column(d, "amount"))), "amount")
             positive == Filter(numeric, IsPositive(numeric))
             valid == Filter(positive, IsAtMostMax(positive))
         IN IF NeedsPaiseConversion(valid) THEN DivideBy100(valid, "amount") ELSE valid

date_columns == <<"transaction_start_date_time", "created_at", "sale_txn_date_time",
                  "txn_completion_date_time">>

\* mutant: the future-date filter keeps every row
KeepsFutureDates(d, t) == [i \in 1..len(d) |-> TRUE]

\* df['created_at'] <= datetime.now()
NotAfter(d, t) == [i \in 1..len(d) |-> Column(d, "created_at")[i].n <= t]

\* series.dt.date.astype(str)
dt_date(series) == [i \in DOMAIN series |-> DateStr(DateOf(series[i].n))]

\* one pass of the loop body over date_col
ParseDateColumn(d, date_col, t) ==
    LET parsed == dropna(Assign(d, "created_at", to_datetime(Column(d, date_col))),
                         "created_at")
        valid == Filter(parsed, NotAfter(parsed, t))
    IN Assign(valid, "date", dt_date(Column(valid, "created_at")))

\* if len(df) > 0: date_found = True; break
DateFound(d) == len(d) > 0

RECURSIVE CleanDatesFrom(_, _, _)
CleanDatesFrom(d, i, t) ==
    IF i > Len(date_columns) THEN d
    ELSE IF date_columns[i] \in d.cols
         THEN LET after == ParseDateColumn(d, date_columns[i], t)
              IN IF DateFound(after) THEN after ELSE CleanDatesFrom(after, i + 1, t)
         ELSE CleanDatesFrom(d, i + 1, t)

CleanDates(d, t) == CleanDatesFrom(d, 1, t)

CleanStatus(d) ==
    LET copied == IF "txn_status_name" \in d.cols
                  THEN Assign(d, "status", Column(d, "txn_status_name"))
                  ELSE d
    IN IF "status" \notin copied.cols THEN copied
       ELSE LET present == dropna(copied, "status")
            IN dropna(Assign(present, "status", map_status(Column(present, "status"))),
                      "status")

\* self.transactions_df['payment_mode_name'] in the fillna argument: KeyError
\* when the frame has payment_method but no payment_mode_name
PaymentRaises(d) ==
    "payment_method" \in d.cols /\ "payment_mode_name" \notin d.cols

CleanPaymentMethod(d) ==
    LET copied == IF "payment_mode_name" \in d.cols
                  THEN Assign(d, "payment_method", Column(d, "payment_mode_name"))
                  ELSE d
    IN IF "payment_method" \notin copied.cols THEN copied
       ELSE LET present == dropna(copied, "payment_method")
            IN Assign(present, "payment_method",
                      fillna(map_payment(Column(present, "payment_method")),
                             str_upper(Column(present, "payment_mode_name"))))

CleanMerchant(d) ==
    IF "merchant_display_name" \notin d.cols THEN d
    ELSE LET kept == dropna(d, "merchant_display_name")
         IN Assign(Assign(kept, "merchant_name", Column(kept, "merchant_display_name")),
                   "merchant_id", [i \in 1..len(kept) |-> Text("CSV_MERCHANT_001")])

\* final_count > 0 and self.transactions_df['merchant_name'] with no such column: KeyError
FinalCheckRaises(d) == len(d) > 0 /\ "merchant_name" \notin d.cols

-----------------------------------------------------------------------------
(* _clean_settlement_data, step by step *)

amount_columns == <<"amount", "settlement_amount", "actual_txn_amount", "refund_amount">>

\* if median_val > 10000
SettlementNeedsConversion(d, col) ==
    MedianExceeds(Values(d, col), settlement_median_threshold)

CleanSettlementColumn(d, col) ==
    LET numeric == dropna(Assign(d, col, to_numeric(Column(d, col))), col)
    IN IF SettlementNeedsConversion(numeric, col) THEN DivideBy100(numeric, col) ELSE numeric

RECURSIVE SettlementAmountsFrom(_, _)
SettlementAmountsFrom(d, i) ==
    IF i > Len(amount_columns) THEN d
    ELSE IF amount_columns[i] \in d.cols
         THEN SettlementAmountsFrom(CleanSettlementColumn(d, amount_columns[i]), i + 1)
         ELSE SettlementAmountsFrom(d, i + 1)

CleanSettlementAmounts(d) == SettlementAmountsFrom(d, 1)

CleanSettlementDates(d) ==
    IF "transaction_start_date_time" \notin d.cols THEN d
    ELSE dropna(Assign(d, "settlement_date",
                       to_datetime(Column(d, "transaction_start_date_time"))),
                "settlement_date")

CleanSettlementMerchant(d) ==
    IF "merchant_display_name" \notin d.cols THEN d
    ELSE LET kept == dropna(d, "merchant_display_name")
         IN Assign(kept, "merchant_name", Column(kept, "merchant_display_name"))

-----------------------------------------------------------------------------
(* The cleaners as a whole: [raised, df], what the loader is left with *)

Cleaned(d) == [raised |-> FALSE, df |-> d]
Raised == [raised |-> TRUE, df |-> EmptyDataFrame]

clean_transaction_data(d, t) ==
    IF empty(d) THEN Cleaned(d)
    ELSE LET s5 == CleanDates(CleanAmount(DropMissingCritical(
                       ApplyColumnMapping(PruneSparseColumns(d)))), t)
             s6 == CleanStatus(s5)
         IN IF PaymentRaises(s6) THEN Raised
            ELSE LET s8 == CleanMerchant(CleanPaymentMethod(s6))
                 IN IF FinalCheckRaises(s8) THEN Raised ELSE Cleaned(s8)

clean_settlement_data(d) ==
    IF empty(d) THEN Cleaned(d)
    ELSE Cleaned(CleanSettlementMerchant(CleanSettlementDates(
             CleanSettlementAmounts(PruneSparseColumns(d)))))

clean_support_data(d) ==
    IF empty(d) THEN Cleaned(d) ELSE Cleaned(PruneSparseColumns(d))

-----------------------------------------------------------------------------
(* get_data_summary *)

NoSummary == [called |-> FALSE, raised |-> FALSE,
              transactions_loaded |-> 0, settlements_loaded |-> 0, support_loaded |-> 0]

\* len(df) if not df.empty else 0
loaded(d) == IF ~empty(d) THEN len(d) ELSE 0

\* None has no attribute .empty: AttributeError
get_data_summary(frames) ==
    IF \E c \in Category : frames[c].isNone
    THEN [NoSummary EXCEPT !.called = TRUE, !.raised = TRUE]
    ELSE [called |-> TRUE, raised |-> FALSE,
          transactions_loaded |-> loaded(frames["transactions"]),
          settlements_loaded |-> loaded(frames["settlements"]),
          support_loaded |-> loaded(frames["support"])]

-----------------------------------------------------------------------------
(* get_transactions *)

\* mutant: a row at the cutoff itself is left out
AfterCutoffOnly(d, days, t) ==
    IF empty(d) THEN EmptyDataFrame
    ELSE IF "created_at" \in d.cols
         THEN Filter(d, [i \in 1..len(d) |->
                           Column(d, "created_at")[i].n > t - days * TicksPerDay])
         ELSE d

\* mutant: the date filter is left out
ReturnsEveryRow(d, days, t) == IF empty(d) THEN EmptyDataFrame ELSE d

\* the stored transactions with created_at >= datetime.now() - timedelta(days),
\* at clock t; all of them when there is no created_at column
get_transactions(d, days, t) ==
    IF empty(d) THEN EmptyDataFrame
    ELSE IF "created_at" \in d.cols
         THEN Filter(d, [i \in 1..len(d) |->
                           Column(d, "created_at")[i].n >= t - days * TicksPerDay])
         ELSE d

\* the stored settlements with settlement_date >= datetime.now() - timedelta(days),
\* at clock t; all of them when there is no settlement_date column
get_settlements(d, days, t) ==
    IF empty(d) THEN EmptyDataFrame
    ELSE IF "settlement_date" \in d.cols
         THEN Filter(d, [i \in 1..len(d) |->
                           Column(d, "settlement_date")[i].n >= t - days * TicksPerDay])
         ELSE d

RECURSIVE unique(_)
\* series.unique().tolist(): the distinct cells, in the order of their first row
unique(series) ==
    IF series = <<>> THEN <<>>
    ELSE LET front == SubSeq(series, 1, Len(series) - 1)
             last == series[Len(series)]
         IN IF \E i \in 1..Len(front) : front[i] = last
            THEN unique(front) ELSE Append(unique(front), last)

get_merchant_names(d) ==
    IF empty(d) THEN <<>>
    ELSE IF "merchant_name" \notin d.cols THEN <<>>
    ELSE unique(Column(d, "merchant_name"))

-----------------------------------------------------------------------------
(* AnalyticsEngine with use_csv = True.  Money is in units of 1/Scale, a      *)
(* success rate in hundredths of a percent, a mean an exact fraction.        *)

window_days == 30
fallback_rows == 50
trend_days == 7

NoResult == [op |-> "none"]

RECURSIVE SumSeq(_)
SumSeq(s) == IF s = <<>> THEN 0 ELSE Head(s) + SumSeq(Tail(s))

RECURSIVE GCD(_, _)
GCD(a, b) == IF b = 0 THEN a ELSE GCD(b, a % b)

\* the float n / d, kept exact
Ratio(n, d) == [num |-> n \div GCD(n, d), den |-> d \div GCD(n, d)]

Zero == Ratio(0, 1)

\* round(part / whole * 100, 2), in hundredths: to the nearest, a tie to the even one
round_percent(part, whole) ==
    LET q == (part * 10000) \div whole
        rem == (part * 10000) % whole
    IN IF 2 * rem > whole \/ (2 * rem = whole /\ q % 2 = 1) THEN q + 1 ELSE q

\* data[data[col] == value] if col in data.columns else pd.DataFrame()
SelectEqual(data, col, value) ==
    IF col \in data.cols
    THEN Filter(data, [i \in 1..len(data) |-> Column(data, col)[i] = value])
    ELSE EmptyDataFrame

\* df.tail(n)
tail(d, n) ==
    [d EXCEPT !.rows = SubSeq(d.rows, IF len(d) > n THEN len(d) - n + 1 ELSE 1, len(d))]

ZeroMetrics == [revenue |-> 0, transactions |-> 0, success_rate |-> 0, avg_amount |-> Zero]

\* revenue, success_rate and avg_amount of the rows data, given its successful rows
MetricsOf(data, successful) ==
    LET has_amounts == ~empty(successful) /\ "amount" \in successful.cols
    IN [revenue |-> IF has_amounts THEN SumSeq(Values(successful, "amount")) ELSE 0,
        transactions |-> len(data),
        success_rate |-> IF len(data) > 0 THEN round_percent(len(successful), len(data)) ELSE 0,
        avg_amount |-> IF has_amounts
                       THEN Ratio(SumSeq(Values(successful, "amount")), len(successful))
                       ELSE Zero]

\* mutant: every row counts as successful
CountsEveryRowAsSuccess(data) ==
    IF empty(data) THEN ZeroMetrics ELSE MetricsOf(data, data)

calculate_day_metrics(data) ==
    IF empty(data) THEN ZeroMetrics
    ELSE MetricsOf(data, SelectEqual(data, "status", Text("SUCCESS")))

EmptyMap == <<>>

\* data['payment_method'].unique(), without NaN, as strings
MethodsOf(data) ==
    {astype_str(Column(data, "payment_method")[i]) :
        i \in {j \in 1..len(data) : ~isnull(Column(data, "payment_method")[j])}}

analyze_payment_methods(data) ==
    IF empty(data) \/ "payment_method" \notin data.cols THEN EmptyMap
    ELSE [method \in MethodsOf(data) |->
            LET method_data == Filter(data, [i \in 1..len(data) |->
                                   /\ ~isnull(Column(data, "payment_method")[i])
                                   /\ astype_str(Column(data, "payment_method")[i]) = method])
                m == MetricsOf(method_data, SelectEqual(method_data, "status", Text("SUCCESS")))
            IN [total_revenue |-> m.revenue, transaction_count |-> m.transactions,
                success_rate |-> m.success_rate, avg_amount |-> m.avg_amount]]

\* recent_week[status == 'SUCCESS'].groupby('date')['amount'].sum().to_dict()
daily_revenue(recent_week) ==
    LET successful == SelectEqual(recent_week, "status", Text("SUCCESS"))
        days == {Column(successful, "date")[i].n : i \in 1..len(successful)}
    IN [day \in days |->
          SumSeq(Values(SelectEqual(successful, "date", DateStr(day)), "amount"))]

\* payment_counts.index[0]: a method of the highest count (which one of several
\* is for value_counts to decide), None when no row has a method
TrendingMethods(data) ==
    LET count(method) == Cardinality({i \in 1..len(data) :
                             /\ ~isnull(Column(data, "payment_method")[i])
                             /\ astype_str(Column(data, "payment_method")[i]) = method})
    IN IF MethodsOf(data) = {} THEN {"None"}
       ELSE {m \in MethodsOf(data) : \A o \in MethodsOf(data) : count(o) <= count(m)}

\* the trends at clock t, with trending as the answer of value_counts
calculate_trends(data, t, trending) ==
    IF empty(data) THEN EmptyMap
    ELSE LET has_trend == {"date", "status", "amount"} \subseteq data.cols
             recent_week == IF has_trend
                            THEN Filter(data, [i \in 1..len(data) |->
                                     Column(data, "date")[i].n >= DateOf(t) - trend_days])
                            ELSE EmptyDataFrame
             keys == (IF has_trend /\ ~empty(recent_week) THEN {"daily_revenue_trend"} ELSE {})
                     \cup (IF "payment_method" \in data.cols
                           THEN {"trending_payment_method"} ELSE {})
         IN [k \in keys |-> IF k = "daily_revenue_trend" THEN daily_revenue(recent_week)
                            ELSE trending]

empty_pulse_response(t) ==
    [op |-> "get_business_pulse", at |-> t, raised |-> FALSE,
     today |-> ZeroMetrics, yesterday |-> ZeroMetrics,
     payment_methods |-> EmptyMap, recent_trends |-> EmptyMap,
     total_records |-> 0, message |-> TRUE, csv_summary |-> NoSummary, today_data |-> {}]

\* an exception leaves the call
RaisedFrom(operation, t) == [op |-> operation, at |-> t, raised |-> TRUE]

\* if today_data.empty: today_data = df.tail(50)
TodayData(window, t) ==
    LET today_data == SelectEqual(window, "date", DateStr(DateOf(t)))
    IN IF empty(today_data) THEN tail(window, fallback_rows) ELSE today_data

\* _get_pulse_from_csv at clock t; today_data records the index labels of the
\* rows the 'today' metrics were computed from
get_pulse_from_csv(frames, t, trending) ==
    IF frames["transactions"].isNone THEN RaisedFrom("get_business_pulse", t)
    ELSE LET window == get_transactions(frames["transactions"], window_days, t)
         IN IF empty(window) THEN empty_pulse_response(t)
            ELSE IF get_data_summary(frames).raised THEN RaisedFrom("get_business_pulse", t)
            ELSE [op |-> "get_business_pulse", at |-> t, raised |-> FALSE,
                  today |-> calculate_day_metrics(TodayData(window, t)),
                  yesterday |-> calculate_day_metrics(
                                    SelectEqual(window, "date", DateStr(DateOf(t) - 1))),
                  payment_methods |-> analyze_payment_methods(window),
                  recent_trends |-> calculate_trends(window, t, trending),
                  total_records |-> len(window), message |-> FALSE,
                  csv_summary |-> get_data_summary(frames),
                  today_data |-> Idx(TodayData(window, t))]

-----------------------------------------------------------------------------
(* get_growth_insights.  A rate is the exact fraction that the float64 value  *)
(* of the code is the nearest double of.                                     *)

high_value_threshold == 5000

\* the 0.1 of "failure_rate > 0.1" and of "best_rate - worst_rate > 0.1"
rate_threshold_num == 1
rate_threshold_den == 10

\* (rows['status'] == 'SUCCESS').mean()
success_mean(rows) ==
    Ratio(Cardinality({i \in 1..len(rows) : Column(rows, "status")[i] = Text("SUCCESS")}),
          len(rows))

\* (rows['status'] != 'SUCCESS').mean()
failure_mean(rows) ==
    Ratio(Cardinality({i \in 1..len(rows) : Column(rows, "status")[i] # Text("SUCCESS")}),
          len(rows))

\* mutant: the insight at a rate of 0.1 already
ReachesTenth(rate) == rate.num * rate_threshold_den >= rate_threshold_num * rate.den

\* rate > 0.1 for the float64 quotient of two counts: the division rounds to
\* the nearest double, so the quotient is double(0.1) when the fraction is
\* 1/10 and above it when the fraction is
ExceedsTenth(rate) == rate.num * rate_threshold_den > rate_threshold_num * rate.den

\* The pairs of rates whose difference is 1/10 and whose float64 difference
\* is above the double 0.1 (0.4 - 0.3 is 0.10000000000000003), among the
\* rates of at most 20 rows.  For the other pairs at that distance the
\* float64 difference is the double 0.1 or below it (0.5 - 0.4 is
\* 0.09999999999999998).
RoundsAboveTenth ==
    {<<Ratio(2, 5), Ratio(3, 10)>>, <<Ratio(4, 5), Ratio(7, 10)>>,
     <<Ratio(5, 6), Ratio(11, 15)>>, <<Ratio(9, 20), Ratio(7, 20)>>,
     <<Ratio(11, 20), Ratio(9, 20)>>}

\* best_rate - worst_rate > 0.1, the subtraction in float64
GapExceedsTenth(best_rate, worst_rate) ==
    LET gap == (best_rate.num * worst_rate.den - worst_rate.num * best_rate.den)
                   * rate_threshold_den
        tenth == rate_threshold_num * best_rate.den * worst_rate.den
    IN gap > tenth \/ (gap = tenth /\ <<best_rate, worst_rate>> \in RoundsAboveTenth)

Insight(type, rate, best_method, worst_method) ==
    [type |-> type, rate |-> rate, best_method |-> best_method, worst_method |-> worst_method]

\* the high-value rule: the insights it appends
high_value_insight(data) ==
    IF {"amount", "status"} \subseteq data.cols
    THEN LET high_value_txns ==
                 Filter(data, [i \in 1..len(data) |->
                           Column(data, "amount")[i].n >= high_value_threshold * Scale])
         IN IF len(high_value_txns) > 0 /\ ExceedsTenth(failure_mean(high_value_txns))
            THEN <<Insight("HIGH_VALUE_FAILURES", failure_mean(high_value_txns), "", "")>>
            ELSE <<>>
    ELSE <<>>

\* the rows of one group of groupby('payment_method')
method_rows(data, method) ==
    Filter(data, [i \in 1..len(data) |->
              /\ ~isnull(Column(data, "payment_method")[i])
              /\ astype_str(Column(data, "payment_method")[i]) = method])

\* df.groupby('payment_method').apply(lambda x: (x['status'] == 'SUCCESS').mean())
method_performance(data) ==
    [method \in MethodsOf(data) |-> success_mean(method_rows(data, method))]

AtLeast(a, b) == a.num * b.den >= b.num * a.den

\* what sort_values(ascending=False) may put first and last: a method of the
\* highest rate and one of the lowest (which one of several with the same
\* rate is for the sort to decide)
BestMethods(data) ==
    LET perf == method_performance(data)
    IN {m \in DOMAIN perf : \A o \in DOMAIN perf : AtLeast(perf[m], perf[o])}

WorstMethods(data) ==
    LET perf == method_performance(data)
    IN {m \in DOMAIN perf : \A o \in DOMAIN perf : AtLeast(perf[o], perf[m])}

\* the payment-method rule, with best and worst as the ends of the sorted rates
payment_method_insight(data, best_method, worst_method) ==
    IF {"payment_method", "status"} \subseteq data.cols /\ ~empty(data)
    THEN LET perf == method_performance(data)
         IN IF Cardinality(DOMAIN perf) > 1
                  /\ GapExceedsTenth(perf[best_method], perf[worst_method])
            THEN <<Insight("PAYMENT_METHOD_OPTIMIZATION", Zero, best_method, worst_method)>>
            ELSE <<>>
    ELSE <<>>

\* get_growth_insights at clock t
get_growth_insights(frames, t, best_method, worst_method) ==
    IF frames["transactions"].isNone THEN RaisedFrom("get_growth_insights", t)
    ELSE LET window == get_transactions(frames["transactions"], window_days, t)
         IN [op |-> "get_growth_insights", at |-> t, raised |-> FALSE,
             insights |-> IF empty(window) THEN <<>>
                          ELSE high_value_insight(window)
                                   \o payment_method_insight(window, best_method, worst_method)]

-----------------------------------------------------------------------------
(* Control flow of _load_csv_files and of the three _load_* methods *)

\* _load_csv_files calls the three loaders in turn; where control is after the
\* loader of category i returns
AfterLoad(i) ==
    IF i < Len(Categories) THEN [pc |-> "load", cat |-> i + 1]
    ELSE [pc |-> "ready", cat |-> i]

\* mutant: the exception leaves the loader and ends the constructor
ExceptionPropagates(i) == [pc |-> "failed", cat |-> i]

\* "except Exception as e": the loader of category i logs, stores an empty
\* frame and returns normally
OnException(i) == AfterLoad(i)

\* mutant: the else branch of the file check stores nothing
MissingFileLeftNone == None

\* the frame stored when the file is not on disk
MissingFileResult == EmptyDataFrame

\* mutant: a bare "except: continue"
TriesNextOnAnyError(outcome) == outcome # "ok"

\* "except UnicodeDecodeError: continue": the read loop goes on to the next encoding
TriesNextEncoding(outcome) == outcome = "decode_error"

\* after the read loop: transactions replace None by an empty frame and return;
\* settlements and support only skip the cleaning
AfterFailedRead(c) == IF c = "transactions" THEN EmptyDataFrame ELSE None

FirstStep(c) ==
    CASE c = "transactions" -> "t_prune"
      [] c = "settlements" -> "s_prune"
      [] c = "support" -> "u_prune"

Goto(where) == pc' = where.pc /\ cat' = where.cat /\ enc' = 1

Store(d) == df' = [df EXCEPT ![Categories[cat]] = d]

Cur == df[Categories[cat]]

Static == UNCHANGED <<dirExists, fs, now>>

-----------------------------------------------------------------------------
(* Actions *)

\* __init__ and the head of _load_csv_files
Construct ==
    /\ pc = "new"
    /\ IF ~dirExists
       THEN /\ df' = [df EXCEPT !["transactions"] = EmptyDataFrame]
            /\ pc' = "ready"
            /\ UNCHANGED <<cat, enc>>
       ELSE /\ Goto([pc |-> "load", cat |-> 1])
            /\ UNCHANGED df
    /\ UNCHANGED <<attempts, summary, result>>
    /\ Static

\* head of _load_transactions / _load_settlements / _load_support
LoadFile ==
    /\ pc = "load"
    /\ IF fs[Categories[cat]].present
       THEN /\ pc' = "read"
            /\ enc' = 1
            /\ UNCHANGED <<df, cat>>
       ELSE /\ Store(MissingFileResult)
            /\ Goto(AfterLoad(cat))
    /\ UNCHANGED <<attempts, summary, result>>
    /\ Static

\* one pass of "for encoding in encodings"
ReadCsv ==
    /\ pc = "read"
    /\ LET c == Categories[cat]
           outcome == fs[c].outcome[encodings[enc]]
       IN /\ attempts' = [attempts EXCEPT ![c] = Append(@, <<encodings[enc], outcome>>)]
          /\ IF outcome = "ok"
             THEN /\ Store(fs[c].content)
                  /\ pc' = "after_read"
                  /\ UNCHANGED <<cat, enc>>
             ELSE IF TriesNextEncoding(outcome)
             THEN /\ IF enc < Len(encodings)
                     THEN pc' = "read" /\ enc' = enc + 1
                     ELSE pc' = "after_read" /\ enc' = enc
                  /\ UNCHANGED <<df, cat>>
             ELSE /\ Store(EmptyDataFrame)
                  /\ Goto(OnException(cat))
    /\ UNCHANGED <<summary, result>>
    /\ Static

\* after the read loop
AfterRead ==
    /\ pc = "after_read"
    /\ IF Cur.isNone
       THEN /\ Store(AfterFailedRead(Categories[cat]))
            /\ Goto(AfterLoad(cat))
       ELSE /\ pc' = FirstStep(Categories[cat])
            /\ UNCHANGED <<df, cat, enc>>
    /\ UNCHANGED <<attempts, summary, result>>
    /\ Static

\* a cleaning step that cannot raise: at pc = at, replace the frame and go to next
Step(at, d, next) ==
    /\ pc = at
    /\ Store(d)
    /\ pc' = next
    /\ UNCHANGED <<cat, enc, attempts, summary, result>>
    /\ Static

\* "if df.empty: return", then the sparse-column pruning
Prune(at, next) ==
    /\ pc = at
    /\ IF empty(Cur)
       THEN Goto(AfterLoad(cat)) /\ UNCHANGED df
       ELSE Store(PruneSparseColumns(Cur)) /\ pc' = next /\ UNCHANGED <<cat, enc>>
    /\ UNCHANGED <<attempts, summary, result>>
    /\ Static

\* the cleaner returns to its loader, which returns
Return(at, d) ==
    /\ pc = at
    /\ Store(d)
    /\ Goto(AfterLoad(cat))
    /\ UNCHANGED <<attempts, summary, result>>
    /\ Static

\* an exception inside the cleaner reaches the loader's handler
Raise(at) ==
    /\ pc = at
    /\ Store(EmptyDataFrame)
    /\ Goto(OnException(cat))
    /\ UNCHANGED <<attempts, summary, result>>
    /\ Static

TxnPrune == Prune("t_prune", "t_mapping")
TxnMapColumns == Step("t_mapping", ApplyColumnMapping(Cur), "t_critical")
TxnDropCritical == Step("t_critical", DropMissingCritical(Cur), "t_amount")
TxnAmount == Step("t_amount", CleanAmount(Cur), "t_dates")
TxnDates == Step("t_dates", CleanDates(Cur, now), "t_status")

\* mutant: the status step starts again from the file as it was read
TxnStatusFromRaw ==
    Step("t_status", CleanStatus(ApplyColumnMapping(fs["transactions"].content)), "t_payment")

TxnStatus == Step("t_status", CleanStatus(Cur), "t_payment")

TxnPayment ==
    IF pc = "t_payment" /\ PaymentRaises(Cur)
    THEN Raise("t_payment")
    ELSE Step("t_payment", CleanPaymentMethod(Cur), "t_merchant")

TxnMerchant == Step("t_merchant", CleanMerchant(Cur), "t_final")

TxnFinalCheck ==
    IF pc = "t_final" /\ FinalCheckRaises(Cur)
    THEN Raise("t_final")
    ELSE Return("t_final", Cur)

StlPrune == Prune("s_prune", "s_amounts")
StlAmounts == Step("s_amounts", CleanSettlementAmounts(Cur), "s_dates")
StlDates == Step("s_dates", CleanSettlementDates(Cur), "s_merchant")
StlMerchant == Return("s_merchant", CleanSettlementMerchant(Cur))

SupPrune ==
    /\ pc = "u_prune"
    /\ Store(IF empty(Cur) THEN Cur ELSE PruneSparseColumns(Cur))
    /\ Goto(AfterLoad(cat))
    /\ UNCHANGED <<attempts, summary, result>>
    /\ Static

GetDataSummary ==
    /\ pc = "ready"
    /\ summary' = get_data_summary(df)
    /\ UNCHANGED <<df, pc, cat, enc, attempts, result>>
    /\ Static

\* the clock at the load, days days later
After(days) == now + days * TicksPerDay

\* the clock values at which the model asks for the pulse: at the load, when
\* the load is trend_days days back, and at and just past the point where the
\* window leaves the load behind
QueryTimes == {After(days) : days \in {0, trend_days, window_days, window_days + 1}}

\* the clock values of the other queries: at the load and past the window
FewQueryTimes == {After(days) : days \in {0, window_days + 1}}

\* the window of the analytics queries at clock t
WindowOf(frames, t) ==
    IF frames["transactions"].isNone THEN EmptyDataFrame
    ELSE get_transactions(frames["transactions"], window_days, t)

\* what value_counts may put first in the window at clock t
TrendingAnswers(frames, t) ==
    IF "payment_method" \in WindowOf(frames, t).cols
    THEN TrendingMethods(WindowOf(frames, t)) ELSE {"None"}

\* the window at clock t has rates to sort
Ranked(frames, t) ==
    /\ {"payment_method", "status"} \subseteq WindowOf(frames, t).cols
    /\ ~empty(WindowOf(frames, t))
    /\ MethodsOf(WindowOf(frames, t)) # {}

\* what the sort may put first, and last, in the window at clock t
BestAnswers(frames, t) ==
    IF Ranked(frames, t) THEN BestMethods(WindowOf(frames, t)) ELSE {"None"}

WorstAnswers(frames, t) ==
    IF Ranked(frames, t) THEN WorstMethods(WindowOf(frames, t)) ELSE {"None"}

\* get_business_pulse() on the constructed engine
GetBusinessPulse ==
    /\ pc = "ready"
    /\ \E t \in QueryTimes :
          \E trending \in TrendingAnswers(df, t) : result' = get_pulse_from_csv(df, t, trending)
    /\ UNCHANGED <<df, pc, cat, enc, attempts, summary>>
    /\ Static

\* the values of the days argument the model calls with, each at the clock
\* values where the load is that many days back, and one day more
QueryDays == {trend_days, window_days}

\* what a call on the service returns at clock t, or that it raised: None has
\* no attribute .empty
Returned(operation, t, d, value) ==
    IF d.isNone THEN [op |-> operation, at |-> t, raised |-> TRUE]
    ELSE [op |-> operation, at |-> t, raised |-> FALSE, value |-> value]

\* mutant: the filter is applied to the stored dataset, not to a copy of it
GetTransactionsInPlace ==
    /\ pc = "ready"
    /\ \E days \in QueryDays : \E t \in {After(days), After(days + 1)} :
          /\ result' = Returned("get_transactions", t, df["transactions"],
                                [days |-> days,
                                 frame |-> get_transactions(df["transactions"], days, t)])
          /\ df' = [df EXCEPT !["transactions"] = get_transactions(df["transactions"], days, t)]
    /\ UNCHANGED <<pc, cat, enc, attempts, summary>>
    /\ Static

\* get_transactions(days=days) on the constructed service
GetTransactions ==
    /\ pc = "ready"
    /\ \E days \in QueryDays : \E t \in {After(days), After(days + 1)} :
          result' = Returned("get_transactions", t, df["transactions"],
                             [days |-> days,
                              frame |-> get_transactions(df["transactions"], days, t)])
    /\ UNCHANGED <<df, pc, cat, enc, attempts, summary>>
    /\ Static

\* get_settlements() on the constructed service
GetSettlements ==
    /\ pc = "ready"
    /\ \E t \in FewQueryTimes :
          result' = Returned("get_settlements", t, df["settlements"],
                             [days |-> window_days,
                              frame |-> get_settlements(df["settlements"], window_days, t)])
    /\ UNCHANGED <<df, pc, cat, enc, attempts, summary>>
    /\ Static

\* get_merchant_names() on the constructed service
GetMerchantNames ==
    /\ pc = "ready"
    /\ result' = Returned("get_merchant_names", now, df["transactions"],
                          get_merchant_names(df["transactions"]))
    /\ UNCHANGED <<df, pc, cat, enc, attempts, summary>>
    /\ Static

\* get_growth_insights() on the constructed engine
GetGrowthInsights ==
    /\ pc = "ready"
    /\ \E t \in FewQueryTimes :
          \E best_method \in BestAnswers(df, t), worst_method \in WorstAnswers(df, t) :
              result' = get_growth_insights(df, t, best_method, worst_method)
    /\ UNCHANGED <<df, pc, cat, enc, attempts, summary>>
    /\ Static

Next ==
    \/ Construct
    \/ LoadFile
    \/ ReadCsv
    \/ AfterRead
    \/ TxnPrune
    \/ TxnMapColumns
    \/ TxnDropCritical
    \/ TxnAmount
    \/ TxnDates
    \/ TxnStatus
    \/ TxnPayment
    \/ TxnMerchant
    \/ TxnFinalCheck
    \/ StlPrune
    \/ StlAmounts
    \/ StlDates
    \/ StlMerchant
    \/ SupPrune
    \/ GetDataSummary
    \/ GetTransactions
    \/ GetSettlements
    \/ GetMerchantNames
    \/ GetBusinessPulse
    \/ GetGrowthInsights

-----------------------------------------------------------------------------
(* Files on disk *)

AbsentFile == [present |-> FALSE, outcome |-> [e \in Encoding |-> "ok"],
               content |-> EmptyDataFrame]

File(outcome, content) == [present |-> TRUE, outcome |-> outcome, content |-> content]

Utf8 == [e \in Encoding |-> "ok"]

\* the frame with the given columns and the given cells (a sequence of
\* functions from the columns to cells), indexed 0, 1, ... as read_csv does
RawFrame(cols, cells) ==
    DataFrame(cols, [i \in 1..Len(cells) |-> [idx |-> i - 1, c |-> cells[i]]])

RECURSIVE RowsOver(_, _)
\* all rows over the columns cols whose cell in column x is in Dom[x]
RowsOver(cols, Dom) ==
    IF cols = {} THEN {<<>>}
    ELSE LET x == CHOOSE y \in cols : TRUE
         IN {[z \in cols |-> IF z = x THEN v ELSE r[z]] : r \in RowsOver(cols \ {x}, Dom), v \in Dom[x]}

\* all frames of n rows over the columns cols
FramesOf(cols, Dom, n) ==
    {RawFrame(cols, cells) : cells \in [1..n -> RowsOver(cols, Dom)]}

\* all frames of up to MaxRows rows, over each of the column sets given
Frames(colsets, Dom) ==
    UNION {FramesOf(cols, Dom, n) : cols \in colsets, n \in 0..MaxRows}

InitWith(dirs, files, clock) ==
    /\ dirExists \in dirs
    /\ fs \in IF dirExists THEN files ELSE {[c \in Category |-> AbsentFile]}
    /\ now = clock
    /\ df = [c \in Category |-> None]
    /\ pc = "new"
    /\ cat = 1
    /\ enc = 1
    /\ attempts = [c \in Category |-> <<>>]
    /\ summary = NoSummary
    /\ result = NoResult

-----------------------------------------------------------------------------
(* Sample files *)

ValidCell ==
    [x \in {"transaction_id", "amount", "merchant_display_name",
            "transaction_start_date_time", "created_at", "sale_txn_date_time",
            "txn_completion_date_time", "txn_status_name", "status",
            "payment_mode_name", "payment_method", "convenience_fees_amt_in_paise",
            "merchant_name", "settlement_amount", "ticket_id"} |->
        CASE x = "transaction_id" -> {Text("T1")}
          [] x \in {"amount", "settlement_amount"} -> {Num(500)}
          [] x \in {"merchant_display_name", "merchant_name"} -> {Text("Acme")}
          [] x \in {"transaction_start_date_time", "created_at", "sale_txn_date_time",
                    "txn_completion_date_time"} -> {TsText(LoadTime - 1)}
          [] x \in {"txn_status_name", "status"} -> {Text("Captured")}
          [] x \in {"payment_mode_name", "payment_method"} -> {Text("upi")}
          [] x = "convenience_fees_amt_in_paise" -> {Num(0)}
          [] x = "ticket_id" -> {Text("S1")}]

TxnColumns == {"transaction_id", "amount", "merchant_display_name",
               "transaction_start_date_time", "txn_status_name", "payment_mode_name"}
StlColumns == {"amount", "transaction_start_date_time", "merchant_display_name"}
SupColumns == {"ticket_id"}

SampleTxn == FramesOf(TxnColumns, ValidCell, 1)
\* no merchant column at all: the final check of the transaction cleaner raises
RaisingTxn == FramesOf({"transaction_id", "amount"}, ValidCell, 1)
SampleStl == FramesOf(StlColumns, ValidCell, 1)
SampleSup == FramesOf(SupColumns, ValidCell, 1)

\* The outcomes of the three encodings on one file.  An encoding that the loop
\* has no reason to reach would succeed, so that reaching it would show.
ReadOutcomes ==
    {o \in [Encoding -> Outcome] :
        \A i \in 1..3 : (\E j \in 1..(i - 1) : o[encodings[j]] # "decode_error")
                            => o[encodings[i]] = "ok"}

AnyRead(contents) ==
    {AbsentFile} \cup {File(o, c) : o \in ReadOutcomes, c \in contents}

\* every file present and read at the first encoding
GoodRead(contents) == {File(Utf8, c) : c \in contents}

FilesOf(txn, stl, sup) ==
    {[c \in Category |-> CASE c = "transactions" -> t
                           [] c = "settlements" -> s
                           [] c = "support" -> u] : t \in txn, s \in stl, u \in sup}

-----------------------------------------------------------------------------
(* Spec: the loader, over every combination of missing, undecodable and      *)
(* unparseable files                                                        *)

Init ==
    InitWith(BOOLEAN,
             FilesOf(AnyRead(SampleTxn \cup RaisingTxn), AnyRead(SampleStl), AnyRead(SampleSup)),
             LoadTime)

Spec == Init /\ [][Next]_vars

-----------------------------------------------------------------------------
(* Claims about the loader *)

CatIndex(c) == CHOOSE i \in 1..Len(Categories) : Categories[i] = c

\* the constructor has ended, normally ("ready") or by an exception ("failed")
Constructed == pc \in {"ready", "failed"}

\* the loader of category c has returned
Loaded(c) == pc = "ready" \/ (pc # "new" /\ cat > CatIndex(c))

LastOutcome(c) == attempts[c][Len(attempts[c])][2]

\* C1: after construction every category holds a frame (never None), whatever
\* happened to its file, and get_data_summary does not raise.
C1_EveryDatasetDefined ==
    /\ Constructed => \A c \in Category : ~df[c].isNone
    /\ summary.called => ~summary.raised

AllFilesMissing == dirExists /\ \A c \in Category : ~fs[c].present

\* C2: on an existing directory with none of the three files the constructor
\* does not raise, and get_data_summary reports 0, 0, 0 without raising.
C2_MissingFilesSummary ==
    AllFilesMissing =>
        /\ pc # "failed"
        /\ summary.called =>
              /\ ~summary.raised
              /\ summary.transactions_loaded = 0
              /\ summary.settlements_loaded = 0
              /\ summary.support_loaded = 0

C2_Witness == AllFilesMissing /\ summary.called /\ ~summary.raised

\* what the loader of category c leaves, from the file of category c alone
CleanerOf(c, d) ==
    CASE c = "transactions" -> clean_transaction_data(d, now)
      [] c = "settlements" -> clean_settlement_data(d)
      [] c = "support" -> clean_support_data(d)

FirstDecisive(f) ==
    IF \A i \in 1..3 : f.outcome[encodings[i]] = "decode_error" THEN 0
    ELSE CHOOSE i \in 1..3 : /\ f.outcome[encodings[i]] # "decode_error"
                             /\ \A j \in 1..(i - 1) : f.outcome[encodings[j]] = "decode_error"

LoadResult(c) ==
    LET f == fs[c]
        i == FirstDecisive(f)
    IN IF ~f.present THEN EmptyDataFrame
       ELSE IF i = 0 THEN (IF c = "transactions" THEN EmptyDataFrame ELSE None)
       ELSE IF f.outcome[encodings[i]] = "error" THEN EmptyDataFrame
       ELSE CleanerOf(c, f.content).df

\* the load of category c failed: unreadable in every encoding, a parse error,
\* or an exception in the cleaner
LoadFailed(c) ==
    /\ fs[c].present
    /\ \/ FirstDecisive(fs[c]) = 0
       \/ /\ FirstDecisive(fs[c]) # 0
          /\ \/ fs[c].outcome[encodings[FirstDecisive(fs[c])]] = "error"
             \/ CleanerOf(c, fs[c].content).raised

\* C3: when the directory exists, the constructor ends normally with every
\* present file read, and each category holds what its own file alone
\* determines, whatever happened to the other two.
C3_LoadsIndependent ==
    (dirExists /\ Constructed) =>
        /\ pc = "ready"
        /\ \A c \in Category :
              /\ fs[c].present => attempts[c] # <<>>
              /\ df[c] = LoadResult(c)

C3_Witness ==
    /\ pc = "ready"
    /\ LoadFailed("transactions")
    /\ CleanerOf("transactions", fs["transactions"].content).raised
    /\ ~LoadFailed("settlements") /\ len(df["settlements"]) > 0
    /\ ~LoadFailed("support") /\ len(df["support"]) > 0

\* C4: the encodings are tried in the order utf-8, latin-1, cp1252; every
\* attempt but the last ended in a decode error (so nothing is tried after a
\* success or after another error); and a load whose last attempt raised
\* another error leaves an empty frame.
C4_EncodingOrder ==
    \A c \in Category :
        LET a == attempts[c]
        IN /\ Len(a) <= Len(encodings)
           /\ \A i \in 1..Len(a) :
                 /\ a[i][1] = encodings[i]
                 /\ i < Len(a) => a[i][2] = "decode_error"
           /\ (Loaded(c) /\ a # <<>> /\ LastOutcome(c) = "error") => df[c] = EmptyDataFrame

C4_Witness ==
    /\ pc = "ready"
    /\ attempts["transactions"] = << <<"utf-8", "decode_error">>, <<"latin-1", "error">> >>
    /\ fs["transactions"].outcome["cp1252"] = "ok"
    /\ df["transactions"] = EmptyDataFrame
    /\ attempts["settlements"] = << <<"utf-8", "decode_error">>, <<"latin-1", "ok">> >>

-----------------------------------------------------------------------------
(* CleanSpec: the cleaners, over raw files that vary the columns present and *)
(* the cells of the columns a step reads; every file is on disk and decodes  *)
(* at the first encoding                                                     *)

\* the columns of ValidCell, with the cells of the columns in over replaced
Vary(over) == [x \in DOMAIN ValidCell |-> IF x \in DOMAIN over THEN over[x] ELSE ValidCell[x]]

\* base \cup s, for every subset s of optional
WithSubsets(base, optional) == {base \cup s : s \in SUBSET optional}

\* amounts that are not numbers or not positive, beside a valid one
InvalidAmountCells == {NULL, Text("abc"), Num(-5), Num(0), Num(500)}

\* amounts on both sides of the median threshold and of the cap
AmountCells ==
    {Num(500), Num(paise_median_threshold), Num(20000), Num(max_amount), Num(max_amount + 1)}

\* amounts of every kind, with and without the paise indicator column
AmountFrames ==
    Frames(WithSubsets(TxnColumns \ {"amount"}, {"amount"}),
           Vary([amount |-> InvalidAmountCells]))
    \cup Frames(WithSubsets(TxnColumns \ {"amount"}, {"amount", "convenience_fees_amt_in_paise"}),
                Vary([amount |-> AmountCells]))

\* an indicator column with empty cells, beside amounts above the threshold
SparseIndicatorFrames ==
    Frames({TxnColumns \cup {"convenience_fees_amt_in_paise"}},
           Vary([amount |-> {Num(20000)},
                 convenience_fees_amt_in_paise |-> {NULL, Num(0)}]))

\* each required column absent or present; the identifier and the merchant
\* name empty or filled
RequiredFrames ==
    Frames({TxnColumns \ s : s \in SUBSET {"transaction_id", "amount", "merchant_display_name",
                                           "transaction_start_date_time"}},
           Vary([transaction_id |-> {NULL, Text("T1")},
                 merchant_display_name |-> {NULL, Text("Acme")}]))

\* the status under its synonym, under its canonical name, under both, or absent
StatusFrames ==
    Frames(WithSubsets(TxnColumns \ {"txn_status_name"}, {"txn_status_name"}),
           Vary([txn_status_name |-> {NULL, Text("Captured"), Text("failed"), Text("refunded")}]))
    \cup Frames(WithSubsets((TxnColumns \ {"txn_status_name"}) \cup {"status"},
                            {"txn_status_name"}),
                Vary([txn_status_name |-> {Text("Captured"), Text("failed")},
                      status |-> {Text("SUCCESS"), Text("refunded")}]))

DateColumnSets ==
    {{}, {"transaction_start_date_time"}, {"created_at"}, {"sale_txn_date_time"},
     {"txn_completion_date_time"},
     {"transaction_start_date_time", "created_at"},
     {"transaction_start_date_time", "sale_txn_date_time"},
     {"created_at", "sale_txn_date_time"},
     {"sale_txn_date_time", "txn_completion_date_time"},
     {"transaction_start_date_time", "created_at", "txn_completion_date_time"}}

\* the candidate timestamp columns, absent or present, with unparseable and
\* past values
DateFrames ==
    Frames({(TxnColumns \ {"transaction_start_date_time"}) \cup s : s \in DateColumnSets},
           Vary([transaction_start_date_time |-> {Text("garbage"), TsText(LoadTime - 1)},
                 created_at |-> {Text("garbage"), TsText(LoadTime - 1)},
                 sale_txn_date_time |-> {Text("garbage"), TsText(LoadTime - 1)},
                 txn_completion_date_time |-> {TsText(LoadTime - 1)}]))

\* timestamps at and just after the processing time
BoundaryDateFrames ==
    Frames({TxnColumns},
           Vary([transaction_start_date_time |-> {TsText(LoadTime), TsText(LoadTime + 1)}]))

\* a fallback candidate as the only timestamp column, with empty cells
SparseDateFrames ==
    Frames({(TxnColumns \ {"transaction_start_date_time"}) \cup {"sale_txn_date_time"}},
           Vary([sale_txn_date_time |-> {NULL, TsText(LoadTime - 1)}]))

\* the payment method under its synonym, under its canonical name, under both,
\* or absent; values in the synonym table, outside it, and empty
PaymentFrames ==
    Frames(WithSubsets(TxnColumns \ {"payment_mode_name"}, {"payment_mode_name"}),
           Vary([payment_mode_name |-> {NULL, Text("upi"), Text("Credit Card"), Text("paytm")}]))
    \cup Frames(WithSubsets((TxnColumns \ {"payment_mode_name"}) \cup {"payment_method"},
                            {"payment_mode_name"}),
                Vary([payment_mode_name |-> {NULL, Text("Credit Card")},
                      payment_method |-> {Text("upi"), Text("paytm")}]))

\* the merchant under its display-name column, under the canonical
\* merchant_name, under both, or absent
MerchantFrames ==
    Frames(WithSubsets(TxnColumns \ {"merchant_display_name"},
                       {"merchant_display_name", "merchant_name"}),
           Vary([merchant_display_name |-> {NULL, Text("Acme")},
                 merchant_name |-> {NULL, Text("Bolt")}]))

\* settlement amount fields of either magnitude, with and without the indicator
SettlementFrames ==
    Frames(WithSubsets(StlColumns \ {"amount"}, {"amount", "convenience_fees_amt_in_paise"}),
           Vary([amount |-> {Text("abc"), Num(20000)}]))
    \cup Frames(WithSubsets((StlColumns \ {"amount"}) \cup {"settlement_amount"},
                            {"amount", "convenience_fees_amt_in_paise"}),
                Vary([amount |-> {Num(20000)},
                      settlement_amount |-> {NULL, Num(settlement_median_threshold),
                                             Num(20000)}]))

\* the valid row over the columns cols, with the cell of column col empty; a
\* column that ValidCell does not know holds a text
RowWithout(cols, col) ==
    [x \in cols |-> IF x = col THEN NULL
                    ELSE IF x \in DOMAIN ValidCell THEN CHOOSE v \in ValidCell[x] : TRUE
                    ELSE Text("note")]

\* n rows over the columns cols in which the column col is empty in the first
\* missing rows
SparseColumnFrame(cols, col, n, missing) ==
    RawFrame(cols, [i \in 1..n |-> IF i <= missing THEN RowWithout(cols, col)
                                    ELSE RowWithout(cols, "")])

\* a column empty in 4 rows of 5 (at the pruning threshold), in 5 of 6 (just
\* above it) and in every row
SparseColumnFrames(cols, col) ==
    {SparseColumnFrame(cols \cup {col}, col, 5, 4),
     SparseColumnFrame(cols \cup {col}, col, 6, 5),
     SparseColumnFrame(cols \cup {col}, col, 2, 2)}

SupportFrames == SparseColumnFrames(SupColumns, "comments")

TransactionFrames ==
    AmountFrames \cup SparseIndicatorFrames \cup RequiredFrames \cup StatusFrames \cup DateFrames
        \cup BoundaryDateFrames \cup SparseDateFrames \cup PaymentFrames \cup MerchantFrames
        \cup SparseColumnFrames(TxnColumns, "convenience_fees_amt_in_paise")

CleanInit ==
    InitWith({TRUE},
             FilesOf(GoodRead(TransactionFrames), GoodRead(SampleStl), GoodRead(SampleSup))
             \cup FilesOf(GoodRead(SampleTxn),
                          GoodRead(SettlementFrames
                                       \cup SparseColumnFrames(StlColumns, "settlement_amount")),
                          GoodRead(SampleSup))
             \cup FilesOf(GoodRead(SampleTxn), GoodRead(SampleStl), GoodRead(SupportFrames)),
             LoadTime)

CleanSpec == CleanInit /\ [][Next]_vars

-----------------------------------------------------------------------------
(* Claims about the cleaners *)

\* the cell of the raw file of category c at index label i, column col
Raw(c, i, col) == fs[c].content.rows[i + 1].c[col]

Rows(d) == {d.rows[i] : i \in 1..len(d)}

Txn == df["transactions"]
Stl == df["settlements"]

\* C5: after transaction cleaning every retained row has an amount, and it is
\* greater than 0 and at most 10,000,000.
C5_AmountInRange ==
    Loaded("transactions") =>
        \A r \in Rows(Txn) :
            /\ "amount" \in Txn.cols
            /\ r.c["amount"].k = "num"
            /\ r.c["amount"].n > 0
            /\ r.c["amount"].n <= max_amount * Scale

\* C6: after transaction cleaning every retained row has a status, one of
\* SUCCESS, FAILED, PENDING.
C6_StatusCanonical ==
    Loaded("transactions") =>
        \A r \in Rows(Txn) :
            /\ "status" \in Txn.cols
            /\ r.c["status"] \in {Text("SUCCESS"), Text("FAILED"), Text("PENDING")}

\* C7: after transaction cleaning no retained row lacks one of the four
\* required fields, whether its cell is empty or its column is absent.
C7_RequiredFieldsPresent ==
    Loaded("transactions") =>
        \A r \in Rows(Txn) :
            \A i \in 1..Len(critical_columns) :
                /\ critical_columns[i] \in Txn.cols
                /\ ~isnull(r.c[critical_columns[i]])

\* the raw amounts of the rows d retains, in row order
RawAmounts(c, d, col) == [i \in 1..len(d) |-> Raw(c, d.rows[i].idx, col).n]

\* C8: right after the amount step, if the indicator column is present and the
\* median of the retained amounts is above 10,000, every retained amount is
\* its raw value divided by 100; otherwise every retained amount is its raw value.
C8_UnitCorrection ==
    (pc = "t_dates" /\ "amount" \in Txn.cols) =>
        LET divided == /\ "convenience_fees_amt_in_paise" \in Txn.cols
                       /\ MedianExceeds(RawAmounts("transactions", Txn, "amount"),
                                        paise_median_threshold)
        IN \A r \in Rows(Txn) :
              /\ r.c["amount"].k = "num"
              /\ IF divided
                 THEN r.c["amount"].n * paise_per_rupee = Raw("transactions", r.idx, "amount").n
                 ELSE r.c["amount"].n = Raw("transactions", r.idx, "amount").n

\* the correction fired on two rows whose median is above the threshold, and
\* a frame without the indicator column kept an amount above the threshold
C8_Witness ==
    /\ pc = "t_dates"
    /\ "amount" \in Txn.cols
    /\ "convenience_fees_amt_in_paise" \in Txn.cols
    /\ len(Txn) = 2
    /\ \A r \in Rows(Txn) : r.c["amount"].n * paise_per_rupee = Raw("transactions", r.idx, "amount").n
    /\ \E r \in Rows(Txn) : Raw("transactions", r.idx, "amount") = Num(500)

\* C9: a settlement amount field differs from its raw value only if the
\* indicator column is present and the field's median is above 10,000.
C9_SettlementSameRule ==
    pc = "s_dates" =>
        \A i \in 1..Len(amount_columns) :
            LET col == amount_columns[i]
            IN col \in Stl.cols =>
                  \A r \in Rows(Stl) :
                      r.c[col].n # Raw("settlements", r.idx, col).n =>
                          /\ "convenience_fees_amt_in_paise" \in Stl.cols
                          /\ MedianExceeds(RawAmounts("settlements", Stl, col),
                                           settlement_median_threshold)

\* a cell that parses to a timestamp not after the processing time
ValidTimestamp(cell) == ~isnull(coerce_datetime(cell)) /\ coerce_datetime(cell).n <= now

\* the first candidate column of d in which a majority of the rows parse
MajorityColumn(d) ==
    LET ok(col) == /\ col \in d.cols
                   /\ 2 * Cardinality({i \in 1..len(d) : ~isnull(coerce_datetime(d.rows[i].c[col]))})
                        > len(d)
        first == {i \in 1..Len(date_columns) :
                     ok(date_columns[i]) /\ \A j \in 1..(i - 1) : ~ok(date_columns[j])}
    IN IF first = {} THEN "" ELSE date_columns[CHOOSE i \in first : TRUE]

\* C10: the timestamp step uses the first candidate column in which a
\* majority of rows parse, and keeps every row whose value in that column is
\* a valid timestamp.
C10_TimestampFallback ==
    [][pc = "t_dates" =>
          LET chosen == MajorityColumn(Txn)
          IN chosen # "" =>
                \A r \in Rows(Txn) :
                    ValidTimestamp(r.c[chosen]) => r.idx \in Idx(df'["transactions"])]_vars

\* a candidate timestamp column is in the frame the timestamp step works on
\* (the columns of a frame do not change after the sparse-column pruning,
\* but for the ones the steps add)
HasDateColumn(d) == \E i \in 1..Len(date_columns) : date_columns[i] \in d.cols

\* C11: when a candidate timestamp column exists, every retained row has a
\* created_at that is a timestamp not after the processing time, and a date
\* that is the calendar date of that created_at.
C11_TimestampValid ==
    (Loaded("transactions") /\ HasDateColumn(Txn)) =>
        \A r \in Rows(Txn) :
            /\ {"created_at", "date"} \subseteq Txn.cols
            /\ r.c["created_at"].k = "ts"
            /\ r.c["created_at"].n <= now
            /\ r.c["date"] = DateStr(r.c["created_at"].n \div TicksPerDay)

\* of two rows, the one dated after the processing time was rejected and the
\* one dated exactly at the processing time was retained
C11_Witness ==
    /\ Loaded("transactions")
    /\ len(fs["transactions"].content) = 2
    /\ "transaction_start_date_time" \in fs["transactions"].content.cols
    /\ Raw("transactions", 0, "transaction_start_date_time") = TsText(LoadTime + 1)
    /\ Raw("transactions", 1, "transaction_start_date_time") = TsText(LoadTime)
    /\ Idx(Txn) = {1}
    /\ Txn.rows[1].c["created_at"] = Ts(now)

\* the raw file of the transactions
RawTxn == fs["transactions"].content

\* C12: when the file has neither status nor txn_status_name, every retained
\* row has status SUCCESS.
C12_StatusDefault ==
    (Loaded("transactions") /\ {"status", "txn_status_name"} \cap RawTxn.cols = {}) =>
        \A r \in Rows(Txn) :
            /\ "status" \in Txn.cols
            /\ r.c["status"] = Text("SUCCESS")

\* the canonical token of a raw payment method: the table's entry for its
\* uppercase form, or the uppercase form itself
CanonicalPayment(cell) ==
    LET u == upper(astype_str(cell))
    IN Text(IF u \in payment_keys THEN payment_mapping(u) ELSE u)

\* C13: the payment step keeps every row that has a payment method (which the
\* column mapping has put under payment_method), and leaves it with the
\* canonical token of its raw value.
C13_PaymentCanonical ==
    [][(pc = "t_payment" /\ "payment_method" \in Txn.cols) =>
          \A r \in Rows(Txn) :
              ~isnull(r.c["payment_method"]) =>
                  \E q \in Rows(df'["transactions"]) :
                      /\ q.idx = r.idx
                      /\ q.c["payment_method"] = CanonicalPayment(r.c["payment_method"])]_vars

\* C14: when the file has neither payment_method nor payment_mode_name, every
\* retained row has payment_method UPI.
C14_PaymentDefault ==
    (Loaded("transactions") /\ {"payment_method", "payment_mode_name"} \cap RawTxn.cols = {}) =>
        \A r \in Rows(Txn) :
            /\ "payment_method" \in Txn.cols
            /\ r.c["payment_method"] = Text("UPI")

TxnSteps == {"t_prune", "t_mapping", "t_critical", "t_amount", "t_dates", "t_status",
             "t_payment", "t_merchant", "t_final"}

\* the columns a canonical column may be filled from: its synonym in the
\* mapping table and, for created_at, the candidate timestamp columns
SynonymsOf(canon) ==
    ({column_mapping[i][1] : i \in {j \in 1..Len(column_mapping) : column_mapping[j][2] = canon}}
        \cup (IF canon = "created_at" THEN {date_columns[i] : i \in 1..Len(date_columns)} ELSE {}))
    \ {canon}

CanonicalColumns ==
    {canon \in {column_mapping[i][2] : i \in 1..Len(column_mapping)} : SynonymsOf(canon) # {}}

\* what a step may leave in a canonical column that it did not fill from a
\* synonym: the cell as it was, or that cell normalised
OwnValues(canon, cell) ==
    CASE canon = "status" -> {cell, map_status(<<cell>>)[1]}
      [] canon = "payment_method" -> {cell, CanonicalPayment(cell)}
      [] canon = "created_at" -> {cell, coerce_datetime(cell)}
      [] OTHER -> {cell}

\* a step neither overwrites a canonical column of the source file from a
\* synonym nor adds a canonical column that has no synonym to be filled from
KeepsCanonical(canon, before, after) ==
    /\ (canon \in RawTxn.cols /\ canon \in before.cols /\ canon \in after.cols) =>
          \A r \in Rows(before), q \in Rows(after) :
              q.idx = r.idx => q.c[canon] \in OwnValues(canon, r.c[canon])
    /\ (canon \notin before.cols /\ canon \in after.cols) =>
          SynonymsOf(canon) \cap before.cols # {}

\* C15: no cleaning step overwrites a canonical column of the source file from
\* a synonym column: its cell in a retained row comes from its own cell; and
\* a step adds a canonical column only when one of its synonyms is there.
C15_CanonicalNotOverwritten ==
    [][(pc \in TxnSteps) =>
          \A canon \in CanonicalColumns : KeepsCanonical(canon, Txn, df'["transactions"])]_vars

\* C16: after transaction cleaning every retained row has a merchant_name
\* that is not empty and the merchant_id CSV_MERCHANT_001.
C16_MerchantIdentity ==
    Loaded("transactions") =>
        \A r \in Rows(Txn) :
            /\ {"merchant_name", "merchant_id"} \subseteq Txn.cols
            /\ r.c["merchant_name"].k = "text"
            /\ r.c["merchant_name"].s # ""
            /\ r.c["merchant_id"] = Text("CSV_MERCHANT_001")

\* a row of the raw file d that passes every validation of the cleaning: the
\* four required fields are there, the amount is a number in (0, 10,000,000],
\* the timestamp parses and is not in the future, every status column the
\* file has holds a value of the synonym table, and every payment column the
\* file has holds a value
PassesEveryValidation(d, r) ==
    /\ \A i \in 1..Len(critical_columns) :
          critical_columns[i] \in d.cols /\ ~isnull(r.c[critical_columns[i]])
    /\ r.c["amount"].k = "num"
    /\ r.c["amount"].n > 0
    /\ r.c["amount"].n <= max_amount * Scale
    /\ ValidTimestamp(r.c["transaction_start_date_time"])
    /\ \A col \in {"status", "txn_status_name"} \cap d.cols :
          upper(astype_str(r.c[col])) \in status_keys
    /\ \A col \in {"payment_method", "payment_mode_name"} \cap d.cols : ~isnull(r.c[col])

\* C17: whatever columns the file has, no cleaning step raises, so a row that
\* passes every validation is in the dataset the load leaves.
C17_ValidRowsRetained ==
    Loaded("transactions") =>
        \A r \in Rows(RawTxn) : PassesEveryValidation(RawTxn, r) => r.idx \in Idx(Txn)

\* C18: cleaning the cleaned transactions again, at the same processing time,
\* raises nothing and gives the same dataset: the same rows, columns and cells.
C18_CleaningIdempotent ==
    (Loaded("transactions") /\ ~Txn.isNone) =>
        /\ ~clean_transaction_data(Txn, now).raised
        /\ clean_transaction_data(Txn, now).df = Txn

-----------------------------------------------------------------------------
(* PulseSpec: the analytics queries, over transaction files that vary the    *)
(* status, the amount and the day of each row, files longer than the demo    *)
(* fallback, and missing or undecodable files                                *)

Undecodable == [e \in Encoding |-> "decode_error"]

\* rows of today and of the day before the load, successful and failed
PulseFrames ==
    Frames(WithSubsets(TxnColumns \ {"txn_status_name", "transaction_start_date_time"},
                       {"txn_status_name", "transaction_start_date_time"}),
           Vary([amount |-> {Num(500), Num(6000)},
                 txn_status_name |-> {Text("Captured"), Text("failed")},
                 transaction_start_date_time |-> {TsText(LoadTime),
                                                  TsText(LoadTime - TicksPerDay)}]))

\* a valid row with the given timestamp and amount
LongRow(t, amount) ==
    [x \in TxnColumns |->
        CASE x = "transaction_start_date_time" -> TsText(t)
          [] x = "amount" -> Num(amount)
          [] OTHER -> CHOOSE v \in ValidCell[x] : TRUE]

\* one row more than the fallback takes, all of the day before the load but
\* one of the load's day: the first row of the file, or the last
LongFrames ==
    {RawFrame(TxnColumns,
              [i \in 1..(fallback_rows + 1) |->
                  IF i = latest THEN LongRow(LoadTime, 700)
                  ELSE LongRow(LoadTime - TicksPerDay, 500)]) :
        latest \in {1, fallback_rows + 1}}

\* a valid row with the given payment method, status and amount
InsightRow(method, status, amount) ==
    [x \in TxnColumns |->
        CASE x = "payment_mode_name" -> Text(method)
          [] x = "txn_status_name" -> Text(status)
          [] x = "amount" -> Num(amount)
          [] OTHER -> CHOOSE v \in ValidCell[x] : TRUE]

Repeat(row, n) == [i \in 1..n |-> row]

\* two payment methods, successful and failed, amounts at and just under the
\* high-value threshold
InsightFrames ==
    Frames({TxnColumns},
           Vary([amount |-> {Num(high_value_threshold - 10), Num(high_value_threshold)},
                 txn_status_name |-> {Text("Captured"), Text("failed")},
                 payment_mode_name |-> {Text("upi"), Text("Credit Card")}]))

\* files at the thresholds of the two rules:
\*   1 of 10 high-value rows failed, beside two failed rows of a low value;
\*   1 of 9 high-value rows pending;
\*   success rates 2/5 and 3/10, and 1/2 and 2/5, of two methods (low values)
ThresholdFrames ==
    {RawFrame(TxnColumns, cells) : cells \in
        {Repeat(InsightRow("upi", "failed", 6000), 1)
             \o Repeat(InsightRow("upi", "Captured", 6000), 9)
             \o Repeat(InsightRow("upi", "failed", 500), 2),
         Repeat(InsightRow("upi", "pending", 6000), 1)
             \o Repeat(InsightRow("upi", "Captured", 6000), 8),
         Repeat(InsightRow("upi", "Captured", 500), 2)
             \o Repeat(InsightRow("upi", "failed", 500), 3)
             \o Repeat(InsightRow("Credit Card", "Captured", 500), 3)
             \o Repeat(InsightRow("Credit Card", "failed", 500), 7),
         Repeat(InsightRow("upi", "Captured", 500), 1)
             \o Repeat(InsightRow("upi", "failed", 500), 1)
             \o Repeat(InsightRow("Credit Card", "Captured", 500), 2)
             \o Repeat(InsightRow("Credit Card", "failed", 500), 3)}}

\* a file that has no payment column at all
NoMethodFrames == FramesOf(TxnColumns \ {"payment_mode_name"}, ValidCell, 2)

\* a missing or undecodable file
Unread == {AbsentFile, File(Undecodable, EmptyDataFrame)}

PulseInit ==
    InitWith(BOOLEAN,
             FilesOf(GoodRead(PulseFrames \cup LongFrames \cup InsightFrames
                                  \cup ThresholdFrames),
                     GoodRead(SampleStl), GoodRead(SampleSup))
             \cup FilesOf(Unread \cup GoodRead(FramesOf(TxnColumns, ValidCell, 2)),
                          Unread \cup GoodRead(SampleStl), GoodRead(SampleSup))
             \cup FilesOf(GoodRead(NoMethodFrames), GoodRead(SampleStl), GoodRead(SampleSup)),
             LoadTime)

PulseSpec == PulseInit /\ [][Next]_vars

-----------------------------------------------------------------------------
(* Claims about the analytics *)

Pulse == result.op = "get_business_pulse"

\* the index labels of the stored transactions inside the window of
\* window_days days that ends at clock t
WindowIdx(t) ==
    {r.idx : r \in {x \in Rows(Txn) :
                       "created_at" \in Txn.cols =>
                           x.c["created_at"].n >= t - window_days * TicksPerDay}}

\* the stored transactions with the index labels in keep, in stored order
TxnAt(keep) == Filter(Txn, [i \in 1..len(Txn) |-> Txn.rows[i].idx \in keep])

IsZeroSummary(m) ==
    m.revenue = 0 /\ m.transactions = 0 /\ m.success_rate = 0 /\ m.avg_amount.num = 0

\* C19: get_business_pulse on a dataset with no row in the window does not
\* raise and returns all-zero today and yesterday summaries, an empty
\* payment-method map and an empty trend map.
C19_EmptyPulse ==
    (Pulse /\ WindowIdx(result.at) = {}) =>
        /\ ~result.raised
        /\ IsZeroSummary(result.today)
        /\ IsZeroSummary(result.yesterday)
        /\ DOMAIN result.payment_methods = {}
        /\ DOMAIN result.recent_trends = {}

\* the stored dataset has rows, all of them older than the window; the
\* settlements were never set
C19_Witness ==
    /\ Pulse
    /\ len(Txn) = 2
    /\ WindowIdx(result.at) = {}
    /\ Stl.isNone
    /\ ~result.raised
    /\ result.total_records = 0

Min(a, b) == IF a <= b THEN a ELSE b

\* C20: when the window has rows but none dated today, the today summary is
\* that of the fallback_rows rows of the window with the latest timestamps
\* (all rows when there are fewer), and the yesterday summary that of the
\* rows dated yesterday.
C20_FallbackMostRecent ==
    (/\ Pulse
     /\ ~result.raised
     /\ WindowIdx(result.at) # {}
     /\ \A r \in Rows(TxnAt(WindowIdx(result.at))) :
           "date" \in Txn.cols => r.c["date"] # DateStr(result.at \div TicksPerDay)) =>
        LET window == TxnAt(WindowIdx(result.at))
            used == TxnAt(result.today_data)
        IN /\ result.today_data \subseteq WindowIdx(result.at)
           /\ Cardinality(result.today_data) = Min(fallback_rows, len(window))
           /\ "created_at" \in Txn.cols =>
                 \A r \in Rows(used), q \in Rows(window) :
                     q.idx \notin result.today_data => r.c["created_at"].n >= q.c["created_at"].n
           /\ result.today = calculate_day_metrics(used)
           /\ result.yesterday =
                 calculate_day_metrics(SelectEqual(window, "date",
                                                   DateStr(result.at \div TicksPerDay - 1)))

Abs(x) == IF x < 0 THEN -x ELSE x

\* the rows of a set of rows whose status is SUCCESS
SuccessRows(rows) ==
    {r \in rows : "status" \in DOMAIN r.c /\ r.c["status"] = Text("SUCCESS")}

RECURSIVE AmountSum(_)
\* the sum of the amounts of a set of rows
AmountSum(rows) ==
    IF rows = {} THEN 0
    ELSE LET r == CHOOSE x \in rows : TRUE
         IN (IF "amount" \in DOMAIN r.c THEN r.c["amount"].n ELSE 0) + AmountSum(rows \ {r})

\* m is the day summary of the rows: the revenue of the successful rows, the
\* count of all rows, the success rate as the hundredth of a percent nearest
\* to 100 * successful / all, the mean amount of the successful rows; 0 where
\* the division has nothing to divide by
IsDaySummary(m, rows) ==
    LET n == Cardinality(rows)
        s == Cardinality(SuccessRows(rows))
        revenue == AmountSum(SuccessRows(rows))
    IN /\ m.revenue = revenue
       /\ m.transactions = n
       /\ IF n = 0 THEN m.success_rate = 0
          ELSE 2 * Abs(m.success_rate * n - 10000 * s) <= n
       /\ IF s = 0 THEN m.avg_amount.num = 0
          ELSE m.avg_amount.num * s = revenue * m.avg_amount.den

\* the rows of the window at clock t that are dated day
DatedRows(t, day) ==
    {r \in Rows(TxnAt(WindowIdx(t))) : "date" \in Txn.cols /\ r.c["date"] = DateStr(day)}

\* C21: the today and yesterday summaries of a pulse are the day summaries of
\* the rows they were computed from: revenue and mean over the SUCCESS rows
\* only, the count over all rows, the success rate rounded to 2 decimals, and
\* all-zero fields, without an exception, for no rows or no SUCCESS row.
C21_DaySummary ==
    (Pulse /\ ~result.raised) =>
        /\ IsDaySummary(result.today, Rows(TxnAt(result.today_data)))
        /\ IsDaySummary(result.yesterday, DatedRows(result.at, DateOf(result.at) - 1))

\* today's only row succeeded and yesterday's only row failed
C21_Witness ==
    /\ Pulse
    /\ ~result.raised
    /\ result.today.transactions = 1
    /\ result.today.success_rate = 10000
    /\ result.today.revenue = 6000 * Scale
    /\ result.today.avg_amount = Ratio(6000 * Scale, 1)
    /\ result.today_data = {r.idx : r \in DatedRows(result.at, DateOf(result.at))}
    /\ result.yesterday.transactions = 1
    /\ result.yesterday.success_rate = 0
    /\ result.yesterday.revenue = 0

\* C22: the daily-revenue trend of a pulse has at most trend_days keys, each
\* one of the trend_days most recent calendar dates (today included), and
\* the value of a key is the sum of the amounts of the SUCCESS rows of that date.
C22_TrendWindow ==
    (Pulse /\ ~result.raised /\ "daily_revenue_trend" \in DOMAIN result.recent_trends) =>
        LET trend == result.recent_trends["daily_revenue_trend"]
            today == DateOf(result.at)
        IN /\ Cardinality(DOMAIN trend) <= trend_days
           /\ \A day \in DOMAIN trend :
                 /\ day > today - trend_days
                 /\ day <= today
                 /\ trend[day] = AmountSum(SuccessRows(DatedRows(result.at, day)))

Insights == result.op = "get_growth_insights"

\* the insights of the given type in the result
InsightsOf(type) == {i \in 1..Len(result.insights) : result.insights[i].type = type}

\* the rows of the window at clock t with an amount of the high-value
\* threshold or more
HighValueRows(t) ==
    {r \in Rows(TxnAt(WindowIdx(t))) :
        "amount" \in Txn.cols /\ r.c["amount"].n >= high_value_threshold * Scale}

\* the rows of a set of rows whose status is FAILED or PENDING
NonSuccessRows(rows) ==
    {r \in rows : "status" \in DOMAIN r.c /\ r.c["status"] \in {Text("FAILED"), Text("PENDING")}}

\* C23: get_growth_insights has the HIGH_VALUE_FAILURES insight (once) exactly
\* when the window has a row of amount 5000 or more and more than a tenth of
\* those rows are FAILED or PENDING; at a tenth or less it has none.
C23_HighValueFailures ==
    (Insights /\ ~result.raised) =>
        LET high == HighValueRows(result.at)
            emitted == InsightsOf("HIGH_VALUE_FAILURES") # {}
        IN /\ Cardinality(InsightsOf("HIGH_VALUE_FAILURES")) <= 1
           /\ emitted <=>
                 /\ high # {}
                 /\ rate_threshold_den * Cardinality(NonSuccessRows(high))
                        > rate_threshold_num * Cardinality(high)

\* exactly a tenth of the high-value rows failed, more than a tenth of all
\* rows did, and the insight was omitted
C23_Witness ==
    /\ Insights
    /\ ~result.raised
    /\ Cardinality(HighValueRows(result.at)) = 10
    /\ Cardinality(NonSuccessRows(HighValueRows(result.at))) = 1
    /\ Cardinality(NonSuccessRows(Rows(TxnAt(WindowIdx(result.at))))) = 3
    /\ InsightsOf("HIGH_VALUE_FAILURES") = {}

\* the payment methods of a set of rows
MethodsIn(rows) ==
    {r.c["payment_method"].s : r \in {x \in rows : "payment_method" \in DOMAIN x.c}}

\* the rows of a set of rows paid by the given method
PaidBy(rows, method) ==
    {r \in rows : "payment_method" \in DOMAIN r.c /\ r.c["payment_method"].s = method}

\* a, of rows of method ma, is a higher success rate than b, of rows of
\* method mb, by more than rate_threshold; and by 0 or more
RateGapExceeds(rows, ma, mb) ==
    LET sa == Cardinality(SuccessRows(PaidBy(rows, ma)))
        na == Cardinality(PaidBy(rows, ma))
        sb == Cardinality(SuccessRows(PaidBy(rows, mb)))
        nb == Cardinality(PaidBy(rows, mb))
    IN (sa * nb - sb * na) * rate_threshold_den > rate_threshold_num * na * nb

RateAtLeast(rows, ma, mb) ==
    Cardinality(SuccessRows(PaidBy(rows, ma))) * Cardinality(PaidBy(rows, mb))
        >= Cardinality(SuccessRows(PaidBy(rows, mb))) * Cardinality(PaidBy(rows, ma))

\* C24: get_growth_insights has the PAYMENT_METHOD_OPTIMIZATION insight (once)
\* exactly when the window has two payment methods or more and the highest
\* success rate of a method is above the lowest by more than 0.10, whatever
\* the high-value rule did; the insight names a method of the highest rate as
\* best and a method of the lowest rate as worst.
C24_PaymentMethodGap ==
    (Insights /\ ~result.raised) =>
        LET rows == Rows(TxnAt(WindowIdx(result.at)))
            methods == MethodsIn(rows)
            found == InsightsOf("PAYMENT_METHOD_OPTIMIZATION")
        IN /\ Cardinality(found) <= 1
           /\ found # {} <=>
                 /\ Cardinality(methods) >= 2
                 /\ \E ma \in methods, mb \in methods : RateGapExceeds(rows, ma, mb)
           /\ \A i \in found :
                 /\ result.insights[i].best_method \in methods
                 /\ result.insights[i].worst_method \in methods
                 /\ \A o \in methods :
                       /\ RateAtLeast(rows, result.insights[i].best_method, o)
                       /\ RateAtLeast(rows, o, result.insights[i].worst_method)

-----------------------------------------------------------------------------
(* Claims about the queries as a whole *)

\* r is what its query returns at its clock on the datasets frames (for the
\* order of equal counts or equal rates, one of the orders there are)
IsAnswer(r, frames) ==
    CASE r.op = "none" -> TRUE
      [] r.op = "get_transactions" ->
            \E days \in QueryDays :
                r = Returned("get_transactions", r.at, frames["transactions"],
                             [days |-> days,
                              frame |-> get_transactions(frames["transactions"], days, r.at)])
      [] r.op = "get_settlements" ->
            r = Returned("get_settlements", r.at, frames["settlements"],
                         [days |-> window_days,
                          frame |-> get_settlements(frames["settlements"], window_days, r.at)])
      [] r.op = "get_merchant_names" ->
            r = Returned("get_merchant_names", r.at, frames["transactions"],
                         get_merchant_names(frames["transactions"]))
      [] r.op = "get_business_pulse" ->
            \E trending \in TrendingAnswers(frames, r.at) :
                r = get_pulse_from_csv(frames, r.at, trending)
      [] r.op = "get_growth_insights" ->
            \E best_method \in BestAnswers(frames, r.at),
               worst_method \in WorstAnswers(frames, r.at) :
                r = get_growth_insights(frames, r.at, best_method, worst_method)

\* C25: once the constructor has ended, a step (a query) leaves the three
\* stored datasets as they are and reads no file, and the result it leaves is
\* the answer of its query, at its clock, on those datasets: so the same query
\* at the same clock gives the same result, whatever was asked before.
C25_QueriesPure ==
    [][(pc = "ready") =>
          /\ pc' = "ready"
          /\ df' = df
          /\ attempts' = attempts
          /\ IsAnswer(result', df)
          /\ summary'.called => summary' = get_data_summary(df)]_vars

\* after a summary that raised on the unset settlements, get_transactions
\* left out the row of the stored dataset, which still has it
C25_Witness ==
    /\ pc = "ready"
    /\ summary.called
    /\ result.op = "get_transactions"
    /\ ~result.raised
    /\ len(Txn) = 1
    /\ len(result.value.frame) = 0
    /\ Stl.isNone

-----------------------------------------------------------------------------
(* Claims about the cleaning steps as a whole *)

PruneSteps == {"t_prune", "s_prune", "u_prune"}

\* the raw file of the category being loaded
RawCur == fs[Categories[cat]].content

\* C26: in each of the three cleaners the pruning works on the raw file, before
\* any other step; it drops the columns with more than 0.8 of their cells
\* missing, keeps a column with exactly 0.8 of them missing, and keeps every
\* row and every cell of the columns it keeps.
C26_SparsePruning ==
    [][(pc \in PruneSteps /\ ~empty(Cur)) =>
          LET after == df'[Categories[cat]]
          IN /\ Cur = RawCur
             /\ after.cols =
                   {col \in RawCur.cols :
                       NullCount(RawCur, col) * null_threshold_den
                           <= null_threshold_num * len(RawCur)}
             /\ len(after) = len(RawCur)
             /\ \A i \in 1..len(RawCur) :
                   /\ after.rows[i].idx = RawCur.rows[i].idx
                   /\ \A col \in after.cols : after.rows[i].c[col] = RawCur.rows[i].c[col]]_vars

\* the support file's column that is empty in 4 rows of 5 was kept
C26_Witness ==
    /\ pc = "ready"
    /\ len(fs["support"].content) = 5
    /\ NullCount(fs["support"].content, "comments") = 4
    /\ "comments" \in df["support"].cols
    /\ len(df["support"]) = 5

CleaningSteps == TxnSteps \cup {"s_prune", "s_amounts", "s_dates", "s_merchant", "u_prune"}

\* C27: every step of the three cleaners leaves a subset of the rows it found,
\* each of them once, so that no row is added, duplicated or taken back, and
\* the count of rows never grows.
C27_RowsOnlyShrink ==
    [][(pc \in CleaningSteps) =>
          LET after == df'[Categories[cat]]
          IN /\ Idx(after) \subseteq Idx(Cur)
             /\ Cardinality(Idx(after)) = len(after)
             /\ len(after) <= len(Cur)
             /\ len(after) <= len(RawCur)]_vars

\* of the two rows of the file the amount step dropped one, and the steps
\* after it kept the other
C27_Witness ==
    /\ Loaded("transactions")
    /\ len(RawTxn) = 2
    /\ "amount" \in RawTxn.cols
    /\ Raw("transactions", 0, "amount") = Num(0)
    /\ Idx(Txn) = {1}

\* C28: right after the amount step every retained row has a raw amount of at
\* most 10,000,000, whether or not the amounts were then divided by 100; and
\* when they were divided, every retained amount is at most 100,000.
C28_CapBeforeCorrection ==
    (pc = "t_dates" /\ "amount" \in Txn.cols) =>
        /\ \A r \in Rows(Txn) :
              /\ Raw("transactions", r.idx, "amount").k = "num"
              /\ Raw("transactions", r.idx, "amount").n <= max_amount * Scale
        /\ (\E r \in Rows(Txn) : r.c["amount"].n # Raw("transactions", r.idx, "amount").n) =>
              \A r \in Rows(Txn) : r.c["amount"].n * paise_per_rupee <= max_amount * Scale

\* of a row of 10,000,001 and a row of 10,000,000, with the indicator column,
\* the first was dropped and the second divided to 100,000
C28_Witness ==
    /\ pc = "t_dates"
    /\ len(RawTxn) = 2
    /\ {"amount", "convenience_fees_amt_in_paise"} \subseteq Txn.cols
    /\ Raw("transactions", 0, "amount") = Num(max_amount + 1)
    /\ Raw("transactions", 1, "amount") = Num(max_amount)
    /\ Idx(Txn) = {1}
    /\ Txn.rows[1].c["amount"] = Num(max_amount \div paise_per_rupee)

-----------------------------------------------------------------------------
(* Claims about get_transactions and the payment-method map *)

\* C29: get_transactions(days) does not raise; on a stored dataset without
\* rows it returns an empty dataset; otherwise it returns, in stored order and
\* with their cells as stored, the stored rows with created_at >= clock - days
\* (all of them when there is no created_at column).
C29_GetTransactions ==
    (result.op = "get_transactions") =>
        /\ ~result.raised
        /\ LET frame == result.value.frame
               cutoff == result.at - result.value.days * TicksPerDay
               kept == {r.idx : r \in {x \in Rows(Txn) :
                                          "created_at" \in Txn.cols =>
                                              x.c["created_at"].n >= cutoff}}
           IN IF len(Txn) = 0 THEN empty(frame)
              ELSE /\ frame.cols = Txn.cols
                   /\ frame = TxnAt(kept)

\* of two stored rows the one at the cutoff itself was returned, the older
\* one was not
C29_Witness ==
    /\ result.op = "get_transactions"
    /\ ~result.raised
    /\ len(Txn) = 2
    /\ len(result.value.frame) = 1
    /\ result.value.frame.rows[1].c["created_at"] =
          Ts(result.at - result.value.days * TicksPerDay)

RECURSIVE FieldSum(_, _, _)
\* the sum of the given field over the entries of map with the given keys
FieldSum(map, keys, field) ==
    IF keys = {} THEN 0
    ELSE LET k == CHOOSE x \in keys : TRUE
         IN map[k][field] + FieldSum(map, keys \ {k}, field)

\* C30: the payment-method map of a pulse has one entry for each payment
\* method of the rows of the window; the transaction counts of its entries add
\* up to the number of those rows, which is total_records, their revenues to
\* the sum of the amounts of the SUCCESS rows, and every success rate is
\* between 0 and 100.
C30_PaymentPartition ==
    (Pulse /\ ~result.raised) =>
        LET rows == Rows(TxnAt(WindowIdx(result.at)))
            map == result.payment_methods
        IN /\ DOMAIN map = MethodsIn(rows)
           /\ result.total_records = Cardinality(rows)
           /\ FieldSum(map, DOMAIN map, "transaction_count") = Cardinality(rows)
           /\ FieldSum(map, DOMAIN map, "total_revenue") = AmountSum(SuccessRows(rows))
           /\ \A m \in DOMAIN map : map[m].success_rate >= 0 /\ map[m].success_rate <= 10000

====
